---- MODULE Spec2Model ----
(***************************************************************************)
(* Model of streamlit_app.py: a Streamlit script that loads a CSV of       *)
(* education statistics, filters it by two range sliders and a checkbox,   *)
(* groups the filtered rows by refArea (mean) once for a scatter plot and  *)
(* once for a box plot, and restricts each grouped table by a multiselect. *)
(* Streamlit re-runs the whole script, top to bottom, on every widget      *)
(* change, so every action below is one complete run of the script.        *)
(***************************************************************************)
EXTENDS Integers, Sequences, FiniteSets, TLC

(* Longest CSV (in rows) the remote resource holds. *)
MaxRows == 3
(* Script runs explored per process (first run plus interactions). *)
MaxRuns == 3

(***************************************************************************)
(* Cells.  A numeric cell is <<v>>; a missing cell (pandas NaN) is <<>>.   *)
(* A mean is the reduced fraction <<num, den>>, or NaN.  A region string   *)
(* is a sequence of characters; a missing region is NaN.                   *)
(***************************************************************************)
NaN == <<>>

Num(v) == <<v>>

notna(c) == c # NaN

(* Comparisons of pandas: any comparison with NaN is False. *)
ge(c, bound) == notna(c) /\ notna(bound) /\ c[1] >= bound[1]

le(c, bound) == notna(c) /\ notna(bound) /\ c[1] <= bound[1]

RECURSIVE GCD(_, _)
GCD(a, b) == IF b = 0 THEN a ELSE GCD(b, a % b)

Frac(n, d) == <<n \div GCD(n, d), d \div GCD(n, d)>>

(* cell > mean, with the mean a fraction: v > n/d  <=>  v*d > n. *)
gt(c, m) == notna(c) /\ notna(m) /\ c[1] * m[2] > m[1]

(***************************************************************************)
(* The remote CSV.  Rows are drawn from a pool that holds two rows of one  *)
(* region, two raw regions with the same last path segment, a region with  *)
(* two separators, a university value equal to the mean of others, and a   *)
(* missing value in each column the script reads after the load.           *)
(***************************************************************************)
Row(r, d, i, u, h) ==
    [refArea |-> r, dropout |-> d, illiterate |-> i, university |-> u,
     highereducation |-> h]

aX == <<"a", "/", "X">>

X == <<"X">>

bcY == <<"b", "/", "c", "/", "Y">>

RowPool ==
    { Row(aX,  Num(1), Num(1), Num(1), Num(1)),
      Row(aX,  Num(2), Num(2), Num(3), Num(1)),
      Row(X,   Num(2), Num(1), Num(2), Num(1)),
      Row(bcY, NaN,    Num(1), Num(1), Num(1)),
      Row(X,   Num(1), NaN,    Num(3), Num(1)),
      Row(bcY, Num(1), Num(1), NaN,    Num(1)),
      Row(NaN, Num(2), Num(2), Num(3), Num(1)) }

CsvTables == UNION { [1..n -> RowPool] : n \in 0..MaxRows }

(***************************************************************************)
(* Column helpers (pandas Series.min / max / mean skip NaN).               *)
(***************************************************************************)
Present(t, col) == { i \in 1..Len(t) : notna(t[i][col]) }

ColMin(t, col) ==
    IF Present(t, col) = {} THEN NaN
    ELSE Num(CHOOSE v \in { t[i][col][1] : i \in Present(t, col) } :
               \A i \in Present(t, col) : v <= t[i][col][1])

ColMax(t, col) ==
    IF Present(t, col) = {} THEN NaN
    ELSE Num(CHOOSE v \in { t[i][col][1] : i \in Present(t, col) } :
               \A i \in Present(t, col) : v >= t[i][col][1])

RECURSIVE SumOver(_, _, _)
SumOver(t, col, idx) ==
    IF idx = {} THEN 0
    ELSE LET i == CHOOSE j \in idx : TRUE
         IN  t[i][col][1] + SumOver(t, col, idx \ {i})

Mean(t, col) ==
    IF Present(t, col) = {} THEN NaN
    ELSE Frac(SumOver(t, col, Present(t, col)), Cardinality(Present(t, col)))

(***************************************************************************)
(* Step 1: load.  read_csv fetches the remote table; dropna removes the    *)
(* rows whose higher-education cell is missing.                            *)
(***************************************************************************)
dropna(t) == SelectSeq(t, LAMBDA r : notna(r.highereducation))

Load(csv) == dropna(csv)

(***************************************************************************)
(* Sliders.  A range slider offers every pair lo <= hi between its bounds  *)
(* and starts at (min, max).  On a column without any value the bounds are *)
(* NaN and the only value the script can see is (NaN, NaN).                *)
(***************************************************************************)
SliderDefault(t, col) == <<ColMin(t, col), ColMax(t, col)>>

SliderValues(t, col) ==
    IF Present(t, col) = {} THEN { SliderDefault(t, col) }
    ELSE LET R == ColMin(t, col)[1]..ColMax(t, col)[1]
         IN  { <<Num(p[1]), Num(p[2])>> : p \in { q \in R \X R : q[1] <= q[2] } }

(***************************************************************************)
(* Filter engine (lines 50-67).                                            *)
(***************************************************************************)
RangeMask(r, dr, ir) ==
    /\ ge(r.dropout, dr[1]) /\ le(r.dropout, dr[2])
    /\ ge(r.illiterate, ir[1]) /\ le(r.illiterate, ir[2])

(* Variant of AboveAvgMask: the comparison made inclusive. *)
AboveAvgMaskInclusive(r, avg) ==
    notna(r.university) /\ notna(avg) /\ r.university[1] * avg[2] >= avg[1]

AboveAvgMask(r, avg) == gt(r.university, avg)

Filter(t, dr, ir, cb, avg) ==
    LET ranged == SelectSeq(t, LAMBDA r : RangeMask(r, dr, ir))
    IN  IF cb THEN SelectSeq(ranged, LAMBDA r : AboveAvgMask(r, avg))
        ELSE ranged

(***************************************************************************)
(* Aggregator (lines 69-75 and 114-119).  groupby sorts the group keys     *)
(* and drops a missing key; mean skips missing values.                     *)
(***************************************************************************)
Ord(c) ==
    CASE c = "/" -> 47 [] c = "X" -> 88 [] c = "Y" -> 89
      [] c = "a" -> 97 [] c = "b" -> 98 [] c = "c" -> 99

RECURSIVE StrLt(_, _)
StrLt(s, u) ==
    IF u = <<>> THEN FALSE
    ELSE IF s = <<>> THEN TRUE
    ELSE IF Head(s) # Head(u) THEN Ord(Head(s)) < Ord(Head(u))
    ELSE StrLt(Tail(s), Tail(u))

RECURSIVE SortKeys(_)
SortKeys(K) ==
    IF K = {} THEN <<>>
    ELSE LET k == CHOOSE m \in K : \A o \in K \ {m} : StrLt(m, o)
         IN  <<k>> \o SortKeys(K \ {k})

(* Variant of normalize: split at the first separator, x.split('/', 1)[-1]. *)
normalizeFirst(x) ==
    LET slashes == { i \in 1..Len(x) : x[i] = "/" }
    IN  IF slashes = {} THEN x
        ELSE LET first == CHOOSE i \in slashes : \A j \in slashes : i <= j
             IN  SubSeq(x, first + 1, Len(x))

(* x.rsplit('/', 1)[-1] if '/' in x else x *)
normalize(x) ==
    LET slashes == { i \in 1..Len(x) : x[i] = "/" }
    IN  IF slashes = {} THEN x
        ELSE LET last == CHOOSE i \in slashes : \A j \in slashes : j <= i
             IN  SubSeq(x, last + 1, Len(x))

(* Variant of GroupKeys: the keys renamed before grouping. *)
GroupKeysRenamed(t) ==
    { normalize(t[i].refArea) : i \in 1..Len(t) } \ { NaN }

GroupKeys(t) == { t[i].refArea : i \in 1..Len(t) } \ { NaN }

Group(t, k) == SelectSeq(t, LAMBDA r : r.refArea = k)

(* Variant of GroupByMean: an empty table gives one record of missing values. *)
GroupByMeanBlankRecord(t, cols) ==
    LET keys == SortKeys(GroupKeys(t))
    IN  IF Len(t) = 0
        THEN << [ c \in cols \cup {"refArea"} |-> NaN ] >>
        ELSE [ n \in 1..Len(keys) |->
                 [ c \in cols \cup {"refArea"} |->
                     IF c = "refArea" THEN keys[n]
                     ELSE Mean(Group(t, keys[n]), c) ] ]

GroupByMean(t, cols) ==
    LET keys == SortKeys(GroupKeys(t))
    IN  [ n \in 1..Len(keys) |->
            [ c \in cols \cup {"refArea"} |->
                IF c = "refArea" THEN keys[n] ELSE Mean(Group(t, keys[n]), c) ] ]

(* Lines 74-75 and 118-119: the rename of each grouped record's key.  The  *)
(* keys are strings already (a missing key forms no group), so astype(str) *)
(* leaves them as they are and pd.notna(x) holds.                          *)
Rename(g) ==
    [ n \in 1..Len(g) |->
        [ c \in DOMAIN g[n] |->
            IF c = "refArea" THEN normalize(g[n][c]) ELSE g[n][c] ] ]

ScatterCols == {"illiterate", "dropout"}

BoxCols == {"university"}

Aggregate(t, cols) == Rename(GroupByMean(t, cols))

(***************************************************************************)
(* Selection projector (lines 80-88 and 124-132).                          *)
(***************************************************************************)
Options(g) == { g[n].refArea : n \in 1..Len(g) }

(* Variant of Project: an empty selection read as "no restriction". *)
ProjectEmptyIsAll(g, selected) ==
    IF selected = {} THEN g ELSE SelectSeq(g, LAMBDA r : r.refArea \in selected)

Project(g, selected) == SelectSeq(g, LAMBDA r : r.refArea \in selected)

(* A multiselect keeps the user's value while its options (and default)    *)
(* are the ones it was created with; with other options it is a new widget *)
(* and returns its default, all options.                                   *)
Multiselect(options, held) ==
    IF held # NaN /\ held[1] = options THEN held[2] ELSE options

(***************************************************************************)
(* The script's variables after a run, and the process's counters.         *)
(***************************************************************************)
VARIABLES
    remote,                        \* the CSV behind url
    df,                            \* line 7-8
    dropout_range,                 \* line 32
    illiteracy_range,              \* line 40
    avg_university_percentage,     \* line 58
    include_above_avg_university,  \* line 60
    df_filtered,                   \* line 51, 65
    df_grouped,                    \* line 71-75
    selected_governorates,         \* line 81
    filtered_scatter_data,         \* line 88, plotted at line 105
    df_box_grouped,                \* line 116-119
    selected_box_governorates,     \* line 125
    filtered_box_data,             \* line 132, plotted at line 149
    pc,                            \* where the last run ended
    runs,                          \* script runs of this process
    fetches                        \* pd.read_csv calls of this process

vars == <<remote, df, dropout_range, illiteracy_range,
          avg_university_percentage, include_above_avg_university,
          df_filtered, df_grouped, selected_governorates,
          filtered_scatter_data, df_box_grouped, selected_box_governorates,
          filtered_box_data, pc, runs, fetches>>

(* What st.slider does with NaN bounds is not fixed by the script: it may  *)
(* raise, ending the run at that line, or hand back (NaN, NaN).            *)
SliderOutcomes(csv) ==
    IF Present(Load(csv), "dropout") = {} \/ Present(Load(csv), "illiterate") = {}
    THEN {"raise", "value"}
    ELSE {"value"}

(* A slider keeps the value the user gave it (its bounds are the same in   *)
(* every run of one process); without one it returns its default.          *)
Slider(t, col, held) == IF held = NaN THEN SliderDefault(t, col) ELSE held

Unset ==
    [dropout_range |-> NaN, illiteracy_range |-> NaN,
     avg_university_percentage |-> NaN, df_filtered |-> <<>>,
     df_grouped |-> <<>>, selected_governorates |-> {},
     filtered_scatter_data |-> <<>>, df_box_grouped |-> <<>>,
     selected_box_governorates |-> {}, filtered_box_data |-> <<>>]

(* The columns a statement keeps of a table: t[[c1, c2, ...]]. *)
Columns(t, cols) == [ n \in 1..Len(t) |-> [ c \in cols |-> t[n][c] ] ]

(* Statements that read the script's tables; ns holds df and df_filtered   *)
(* as they are when the statement runs.                                    *)
(* Variant of avg_university: the mean taken over the filtered table. *)
avg_university_filtered(ns) == Mean(ns.df_filtered, "university")

avg_university(ns) == Mean(ns.df, "university")

df_scatter_filtered(ns) == Columns(ns.df_filtered, ScatterCols \cup {"refArea"})

(* Variant of df_box_filtered: the box plot fed from the unfiltered table. *)
df_box_unfiltered(ns) == Columns(ns.df, BoxCols \cup {"refArea"})

df_box_filtered(ns) == Columns(ns.df_filtered, BoxCols \cup {"refArea"})

(* One run of the script, lines 5-156.  dr, ir, cb, sc, bx are the values  *)
(* the widgets hold in the browser (NaN: none yet).                        *)
Script(csv, dr, ir, cb, sc, bx, outcome) ==
    LET d    == Load(csv)
        drng == Slider(d, "dropout", dr)
        irng == Slider(d, "illiterate", ir)
        avg  == avg_university([df |-> d, df_filtered |-> Filter(d, drng, irng, FALSE, NaN)])
        filt == Filter(d, drng, irng, cb, avg)
        ns   == [df |-> d, df_filtered |-> filt]
        grp  == Aggregate(df_scatter_filtered(ns), ScatterCols)
        sel  == Multiselect(Options(grp), sc)
        box  == Aggregate(df_box_filtered(ns), BoxCols)
        bsel == Multiselect(Options(box), bx)
        base == [ c \in DOMAIN Unset \cup {"df", "pc"} |->
                    IF c = "df" THEN d ELSE IF c = "pc" THEN "done" ELSE Unset[c] ]
    IN  IF Present(d, "dropout") = {} /\ outcome = "raise"
        THEN [base EXCEPT !.pc = "line32"]
        ELSE IF Present(d, "illiterate") = {} /\ outcome = "raise"
        THEN [base EXCEPT !.pc = "line40", !.dropout_range = drng]
        ELSE [base EXCEPT
                !.dropout_range = drng,
                !.illiteracy_range = irng,
                !.avg_university_percentage = avg,
                !.df_filtered = filt,
                !.df_grouped = grp,
                !.selected_governorates = sel,
                !.filtered_scatter_data = Project(grp, sel),
                !.df_box_grouped = box,
                !.selected_box_governorates = bsel,
                !.filtered_box_data = Project(box, bsel)]

Assign(s, cb) ==
    /\ df' = s.df
    /\ dropout_range' = s.dropout_range
    /\ illiteracy_range' = s.illiteracy_range
    /\ avg_university_percentage' = s.avg_university_percentage
    /\ include_above_avg_university' = cb
    /\ df_filtered' = s.df_filtered
    /\ df_grouped' = s.df_grouped
    /\ selected_governorates' = s.selected_governorates
    /\ filtered_scatter_data' = s.filtered_scatter_data
    /\ df_box_grouped' = s.df_box_grouped
    /\ selected_box_governorates' = s.selected_box_governorates
    /\ filtered_box_data' = s.filtered_box_data
    /\ pc' = s.pc

(* The values the two multiselects hold in the browser. *)
HeldScatter == <<Options(df_grouped), selected_governorates>>

HeldBox == <<Options(df_box_grouped), selected_box_governorates>>

(* pd.read_csv at line 7: every execution is one more fetch of the CSV. *)
read_csv(n) == n + 1

(* A rerun of the script in the same process, from line 1 to the end. *)
Rerun(dr, ir, cb, sc, bx) ==
    /\ runs < MaxRuns
    /\ runs' = runs + 1
    /\ fetches' = read_csv(fetches)
    /\ UNCHANGED remote
    /\ \E s \in { Script(remote, dr, ir, cb, sc, bx, outcome) :
                   outcome \in SliderOutcomes(remote) } :
         Assign(s, cb)

Start(tables) ==
    /\ remote \in tables
    /\ runs = 1
    /\ fetches = read_csv(0)
    /\ include_above_avg_university = FALSE
    /\ \E outcome \in SliderOutcomes(remote) :
         LET s == Script(remote, NaN, NaN, FALSE, NaN, NaN, outcome)
         IN  /\ df = s.df
             /\ dropout_range = s.dropout_range
             /\ illiteracy_range = s.illiteracy_range
             /\ avg_university_percentage = s.avg_university_percentage
             /\ df_filtered = s.df_filtered
             /\ df_grouped = s.df_grouped
             /\ selected_governorates = s.selected_governorates
             /\ filtered_scatter_data = s.filtered_scatter_data
             /\ df_box_grouped = s.df_box_grouped
             /\ selected_box_governorates = s.selected_box_governorates
             /\ filtered_box_data = s.filtered_box_data
             /\ pc = s.pc

Init == Start(CsvTables)

(* The user moves the dropout slider. *)
ChangeDropout ==
    /\ pc = "done"
    /\ \E v \in SliderValues(df, "dropout") \ {dropout_range} :
         Rerun(v, illiteracy_range, include_above_avg_university,
               HeldScatter, HeldBox)

(* The user moves the illiteracy slider. *)
ChangeIlliteracy ==
    /\ pc = "done"
    /\ \E v \in SliderValues(df, "illiterate") \ {illiteracy_range} :
         Rerun(dropout_range, v, include_above_avg_university,
               HeldScatter, HeldBox)

(* The user ticks or unticks the checkbox. *)
ToggleCheckbox ==
    /\ pc = "done"
    /\ Rerun(dropout_range, illiteracy_range, ~include_above_avg_university,
             HeldScatter, HeldBox)

(* The user changes the scatter plot's multiselect. *)
SelectScatter ==
    /\ pc = "done"
    /\ \E S \in (SUBSET Options(df_grouped)) \ {selected_governorates} :
         Rerun(dropout_range, illiteracy_range, include_above_avg_university,
               <<Options(df_grouped), S>>, HeldBox)

(* The user changes the box plot's multiselect. *)
SelectBox ==
    /\ pc = "done"
    /\ \E S \in (SUBSET Options(df_box_grouped)) \ {selected_box_governorates} :
         Rerun(dropout_range, illiteracy_range, include_above_avg_university,
               HeldScatter, <<Options(df_box_grouped), S>>)

(* The user reloads the page: a new session, every widget at its default. *)
Refresh == Rerun(NaN, NaN, FALSE, NaN, NaN)

Next ==
    \/ ChangeDropout
    \/ ChangeIlliteracy
    \/ ToggleCheckbox
    \/ SelectScatter
    \/ SelectBox
    \/ Refresh

Spec == Init /\ [][Next]_vars

(***************************************************************************)
(* The same program started on CSVs whose first two rows have any region   *)
(* string over the alphabet up to MaxLen characters (none: a missing       *)
(* region) and whose third row lacks the higher-education value.           *)
(***************************************************************************)
MaxLen == 2

Alphabet == {"/", "X", "a"}

RegionStrings == UNION { [1..n -> Alphabet] : n \in 0..MaxLen }

RegionTables ==
    { <<Row(s, Num(1), Num(1), Num(1), Num(1)),
        Row(u, Num(2), Num(2), Num(3), Num(1)),
        Row(X, Num(1), Num(1), Num(1), NaN)>> :
          s \in RegionStrings, u \in RegionStrings }

InitRegions == Start(RegionTables)

RegionSpec == InitRegions /\ [][Next]_vars

(***************************************************************************)
(* Properties.                                                             *)
(***************************************************************************)
Rows(t) == { t[n] : n \in 1..Len(t) }

(* lo <= c <= hi, as numbers: false when any of the three is missing. *)
Within(c, range) ==
    /\ c # NaN /\ range[1] # NaN /\ range[2] # NaN
    /\ range[1][1] <= c[1] /\ c[1] <= range[2][1]

(* c > the mean m = <<num, den>>, as numbers. *)
Exceeds(c, m) == c # NaN /\ m # NaN /\ c[1] * m[2] > m[1]

Passes(r) ==
    /\ Within(r.dropout, dropout_range)
    /\ Within(r.illiterate, illiteracy_range)
    /\ (~include_above_avg_university
          \/ Exceeds(r.university, avg_university_percentage))

(* m is the arithmetic mean of column c over the rows idx of t (over the   *)
(* values present; NaN when none is).                                      *)
IsMeanOf(m, t, c, idx) ==
    LET have == { i \in idx : t[i][c] # NaN }
    IN  IF have = {} THEN m = NaN
        ELSE m # NaN /\ m[2] > 0
             /\ m[1] * Cardinality(have) = m[2] * SumOver(t, c, have)

(* C1: a row of the base table is in the filtered table iff its dropout    *)
(* and illiteracy lie in the slider ranges, bounds included, and the       *)
(* checkbox is off or its university value is strictly above the average.  *)
C1_FilterPredicate ==
    pc = "done" =>
      /\ \A r \in Rows(df) : (r \in Rows(df_filtered)) <=> Passes(r)
      /\ Rows(df_filtered) \subseteq Rows(df)
      /\ Len(df_filtered) = Cardinality({ i \in 1..Len(df) : Passes(df[i]) })

C1_Witness ==
    /\ pc = "done"
    /\ include_above_avg_university
    /\ dropout_range # SliderDefault(df, "dropout")
    /\ df_filtered # <<>>
    /\ \E i \in 1..Len(df) :
         /\ Within(df[i].dropout, dropout_range)
         /\ Within(df[i].illiterate, illiteracy_range)
         /\ Within(df[i].dropout, <<dropout_range[1], dropout_range[1]>>)
         /\ avg_university_percentage # NaN /\ df[i].university # NaN
         /\ df[i].university[1] * avg_university_percentage[2]
              = avg_university_percentage[1]
         /\ df[i] \notin Rows(df_filtered)

(* C2: with both sliders at their default and the checkbox off, the        *)
(* filtered table equals the base table, missing values included.          *)
C2_DefaultIsIdentity ==
    ( /\ pc = "done"
      /\ dropout_range = SliderDefault(df, "dropout")
      /\ illiteracy_range = SliderDefault(df, "illiterate")
      /\ ~include_above_avg_university )
    => df_filtered = df

(* C3: the threshold is the mean of the university column over the whole   *)
(* unfiltered base table, whatever the sliders, checkbox and selections.   *)
C3_ThresholdOverBaseTable ==
    pc = "done" =>
      IsMeanOf(avg_university_percentage, df, "university", 1..Len(df))

C3_Witness ==
    /\ pc = "done"
    /\ runs > 2
    /\ dropout_range # SliderDefault(df, "dropout")
    /\ selected_governorates # Options(df_grouped)
    /\ df_filtered # <<>>
    /\ avg_university_percentage # NaN
    /\ ~IsMeanOf(avg_university_percentage, df_filtered, "university",
                 1..Len(df_filtered))

(* The grouped table g holds one record per raw region of the filtered     *)
(* rows, each with the means of its own rows.                              *)
GroupedPerRawRegion(g, cols) ==
    LET raw == { df_filtered[i].refArea : i \in 1..Len(df_filtered) } \ { NaN }
    IN  /\ Len(g) = Cardinality(raw)
        /\ \E f \in [1..Len(g) -> raw] :
             /\ \A m, n \in 1..Len(g) : m # n => f[m] # f[n]
             /\ \A n \in 1..Len(g) :
                  /\ g[n].refArea = normalize(f[n])
                  /\ \A c \in cols :
                       IsMeanOf(g[n][c], df_filtered, c,
                                { i \in 1..Len(df_filtered) :
                                    df_filtered[i].refArea = f[n] })

(* C4: the aggregator emits exactly one record per distinct raw region of  *)
(* the filtered rows, with the mean over that region's filtered rows; raw  *)
(* regions with the same display name are not merged.                      *)
C4_OneRecordPerRawRegion ==
    pc = "done" =>
      /\ GroupedPerRawRegion(df_grouped, ScatterCols)
      /\ GroupedPerRawRegion(df_box_grouped, BoxCols)

C4_Witness ==
    /\ pc = "done"
    /\ Len(df_filtered) = 3
    /\ Len(df_grouped) = 2
    /\ df_grouped[1].refArea = df_grouped[2].refArea
    /\ \E n \in 1..2 : df_grouped[n].dropout = <<3, 2>>

(* p is g restricted to the records whose region is selected. *)
Projected(p, g, selected) ==
    /\ Len(p) = Cardinality({ n \in 1..Len(g) : g[n].refArea \in selected })
    /\ \A r \in Rows(g) : (r \in Rows(p)) <=> (r.refArea \in selected)
    /\ Rows(p) \subseteq Rows(g)
    /\ (selected = {} => p = <<>>)
    /\ (selected = { g[n].refArea : n \in 1..Len(g) } => p = g)

(* C5: each chart's data is exactly the grouped records whose normalized   *)
(* region is selected; nothing selected gives nothing, everything selected *)
(* gives the grouped table.                                                *)
C5_ProjectionIsMembership ==
    pc = "done" =>
      /\ Projected(filtered_scatter_data, df_grouped, selected_governorates)
      /\ Projected(filtered_box_data, df_box_grouped, selected_box_governorates)

C5_Witness ==
    /\ pc = "done"
    /\ df_grouped # <<>>
    /\ selected_governorates = {}
    /\ filtered_scatter_data = <<>>
    /\ selected_box_governorates # {}
    /\ Len(filtered_box_data) < Len(df_box_grouped)

(* C6: when the filters leave no row, the run still ends after both chart  *)
(* renders, with empty grouped tables and empty chart data.                *)
C6_EmptyFilterResult ==
    (pc \notin {"line32", "line40"} /\ df_filtered = <<>>) =>
      /\ pc = "done"
      /\ df_grouped = <<>> /\ df_box_grouped = <<>>
      /\ selected_governorates = {} /\ selected_box_governorates = {}
      /\ filtered_scatter_data = <<>> /\ filtered_box_data = <<>>

C6_Witness ==
    /\ pc = "done"
    /\ \E i \in 1..Len(df) : df[i].refArea # NaN
    /\ \E i \in 1..Len(df) :
         /\ Within(df[i].dropout, SliderDefault(df, "dropout"))
         /\ Within(df[i].illiterate, SliderDefault(df, "illiterate"))
         /\ df[i].refArea # NaN
    /\ df_filtered = <<>>
    /\ df_grouped = <<>>

(* C7: the CSV is fetched once per process: only the first run loads it.   *)
C7_LoadedOnce == fetches <= 1

(* C8: a manual selection in the multiselect overrides the sliders: after  *)
(* a slider change the scatter plot still shows the selected governorates. *)
C8_SelectionOverridesSliders ==
    [][ ( /\ pc = "done" /\ pc' = "done"
          /\ selected_governorates # Options(df_grouped)
          /\ selected_governorates # {}
          /\ (dropout_range' # dropout_range
                \/ illiteracy_range' # illiteracy_range) )
        => Options(filtered_scatter_data') = selected_governorates ]_vars

(* y is what follows the last "/" of x, or x when x has none. *)
IsLastSegment(y, x) ==
    IF \A i \in 1..Len(x) : x[i] # "/" THEN y = x
    ELSE \E i \in 1..Len(x) :
           /\ x[i] = "/"
           /\ Len(y) = Len(x) - i
           /\ \A j \in 1..Len(y) : y[j] = x[i + j] /\ y[j] # "/"

NormalizedAfterGrouping(g) ==
    LET raw == SortKeys({ df_filtered[i].refArea : i \in 1..Len(df_filtered) }
                          \ { NaN })
    IN  /\ Len(g) = Len(raw)
        /\ \A n \in 1..Len(g) : IsLastSegment(g[n].refArea, raw[n])

(* C9: every grouped record's region is what follows the last "/" of its   *)
(* raw region, or the raw region when it has no "/", in the scatter and in *)
(* the box pipeline.                                                       *)
C9_RegionNormalization ==
    pc = "done" =>
      /\ NormalizedAfterGrouping(df_grouped)
      /\ NormalizedAfterGrouping(df_box_grouped)

C9_Witness ==
    /\ pc = "done"
    /\ Len(df_filtered) = 2
    /\ df_filtered[1].refArea = <<"/", "/">>
    /\ df_filtered[2].refArea = <<"a">>
    /\ Len(df_grouped) = 2
    /\ df_grouped[1].refArea = <<>>
    /\ df_box_grouped[2].refArea = <<"a">>

(* C10: both plots are computed from the same filtered rows: the grouped   *)
(* tables hold the same regions, both multiselects offer the same options, *)
(* and a region without a row passing the filters is in neither.           *)
C10_SameRegionsInBothPlots ==
    pc = "done" =>
      /\ Len(df_grouped) = Len(df_box_grouped)
      /\ \A n \in 1..Len(df_grouped) :
           df_grouped[n].refArea = df_box_grouped[n].refArea
      /\ Options(df_grouped) = Options(df_box_grouped)
      /\ \A g \in {df_grouped, df_box_grouped} : \A n \in 1..Len(g) :
           \E i \in 1..Len(df) :
             /\ Passes(df[i])
             /\ df[i].refArea # NaN
             /\ IsLastSegment(g[n].refArea, df[i].refArea)

C10_Witness ==
    /\ pc = "done"
    /\ df_grouped # <<>>
    /\ include_above_avg_university
    /\ illiteracy_range # SliderDefault(df, "illiterate")
    /\ \E i \in 1..Len(df) :
         /\ df[i].refArea # NaN
         /\ normalize(df[i].refArea) \notin Options(df_grouped)
         /\ normalize(df[i].refArea) \notin Options(df_box_grouped)

====
